---- MODULE Spec2Model ----
(***************************************************************************)
(* Model of pythonx/omnils.py (ncm-R): conversion of omnils lines and      *)
(* package description lines into NCM completion matches.                  *)
(*                                                                         *)
(* Python strings are sequences of one-character strings; a Python dict is *)
(* a function whose domain is its set of keys; a raised exception is the   *)
(* value [exception |-> name], which every caller hands on unchanged.      *)
(***************************************************************************)
EXTENDS Integers, Sequences, FiniteSets, TLC

VARIABLES len, settings, pc, call, ret

vars == <<len, settings, pc, call, ret>>

(***************************************************************************)
(* Characters                                                              *)
(***************************************************************************)
X05 == "\\x05"
X06 == "\\x06"
X07 == "\\x07"
X08 == "\\x08"
TAB == "\t"
NL  == "\n"
SP  == " "
EQ  == "="
DQ  == "\""
DOLLAR == "$"

NBSP == "\\xa0"

\* the characters str.strip() removes from a str: those of str.isspace()
WhiteSpace ==
    {SP, TAB, NL, "\r", "\f", "\\x0b", "\\x1c", "\\x1d", "\\x1e", "\\x1f",
     "\\x85", NBSP, "\\u1680",
     "\\u2000", "\\u2001", "\\u2002", "\\u2003", "\\u2004", "\\u2005",
     "\\u2006", "\\u2007", "\\u2008", "\\u2009", "\\u200a",
     "\\u2028", "\\u2029", "\\u202f", "\\u205f", "\\u3000"}

(***************************************************************************)
(* String literals of the source                                           *)
(***************************************************************************)
NO_ARGS      == <<"N", "O", "_", "A", "R", "G", "S">>
Dots         == <<".", ".", ".">>
S_function   == <<"f", "u", "n", "c", "t", "i", "o", "n">>
S_data_frame == <<"d", "a", "t", "a", ".", "f", "r", "a", "m", "e">>
S_tbl_df     == <<"t", "b", "l", "_", "d", "f">>
S_package    == <<"p", "a", "c", "k", "a", "g", "e">>
S_argument   == <<"a", "r", "g", "u", "m", "e", "n", "t">>
S_variable   == <<"v", "a", "r", "i", "a", "b", "l", "e">>

(***************************************************************************)
(* Python built-ins                                                        *)
(***************************************************************************)
\* name = value, followed by Rest, which reads the name: the value is
\* evaluated once
Let(value, Rest(_)) == CHOOSE r \in {Rest(name) : name \in {value}} : TRUE

Min(a, b) == IF a < b THEN a ELSE b
Max(a, b) == IF a > b THEN a ELSE b

\* c in s, for a one-character c
Contains(s, c) == \E i \in 1..Len(s) : s[i] = c

\* a in b, for strings a and b
IsSubstring(a, b) ==
    \E i \in 0..(Len(b) - Len(a)) : SubSeq(b, i + 1, i + Len(a)) = a

\* s[0:n]
Slice(s, n) ==
    IF n >= 0 THEN SubSeq(s, 1, Min(n, Len(s)))
              ELSE SubSeq(s, 1, Max(Len(s) + n, 0))

\* s.split(c) and re.split(c, s), for a one-character c
RECURSIVE Split(_, _)
Split(s, c) ==
    IF ~Contains(s, c) THEN <<s>>
    ELSE LET i == CHOOSE k \in 1..Len(s) :
                      s[k] = c /\ \A j \in 1..(k - 1) : s[j] # c
         IN <<SubSeq(s, 1, i - 1)>> \o Split(SubSeq(s, i + 1, Len(s)), c)

\* s.replace(c, r), for a one-character c
RECURSIVE Replace(_, _, _)
Replace(s, c, r) ==
    IF s = <<>> THEN <<>>
    ELSE (IF s[1] = c THEN r ELSE <<s[1]>>) \o Replace(Tail(s), c, r)

\* s.strip()
Strip(s) ==
    LET keep == {i \in 1..Len(s) : s[i] \notin WhiteSpace}
    IN IF keep = {} THEN <<>>
       ELSE SubSeq(s, CHOOSE i \in keep : \A j \in keep : i <= j,
                      CHOOSE i \in keep : \A j \in keep : i >= j)

\* ('{:' + str(n) + '} ').format(s)
Format(s, n) ==
    s \o [i \in 1..Max(n - Len(s), 0) |-> SP] \o <<SP>>

\* str(n), for n >= 0
RECURSIVE Str(_)
Str(n) ==
    LET digit == <<"0", "1", "2", "3", "4", "5", "6", "7", "8", "9">>
    IN IF n < 10 THEN <<digit[n + 1]>>
       ELSE Str(n \div 10) \o <<digit[(n % 10) + 1]>>

\* re.search(r'\x08(.*)\x05', s): <<group(1)>> on a match, <<>> on none
TitleSearch(s) ==
    LET ends(i) == {j \in (i + 1)..Len(s) :
                      /\ s[j] = X05
                      /\ \A k \in (i + 1)..(j - 1) : s[k] # NL}
        starts == {i \in 1..Len(s) : s[i] = X08 /\ ends(i) # {}}
    IN IF starts = {} THEN <<>>
       ELSE LET i == CHOOSE a \in starts : \A b \in starts : a <= b
                j == CHOOSE a \in ends(i) : \A b \in ends(i) : a >= b
            IN <<SubSeq(s, i + 1, j - 1)>>

\* re.search(r'^"(.*)"$', s): <<group(1)>> on a match, <<>> on none
QuotesSearch(s) ==
    LET t == IF s # <<>> /\ s[Len(s)] = NL THEN SubSeq(s, 1, Len(s) - 1)
                                           ELSE s
    IN IF /\ Len(t) >= 2
          /\ t[1] = DQ
          /\ t[Len(t)] = DQ
          /\ \A k \in 2..(Len(t) - 1) : t[k] # NL
       THEN <<SubSeq(t, 2, Len(t) - 1)>>
       ELSE <<>>

(***************************************************************************)
(* Exceptions                                                              *)
(***************************************************************************)
IndexError == [exception |-> "IndexError"]

Raised(v) == DOMAIN v = {"exception"}

(***************************************************************************)
(* class Function                                                          *)
(***************************************************************************)
\* Function._get_args: the value of self.args
_get_args(info) ==
    IF info = <<>> THEN <<>>
    ELSE LET args == IF Contains(info, X08) THEN Split(info, X08)[1]
                                             ELSE info
             toks == Split(args, TAB)
         IN [i \in 1..Len(toks) |-> Replace(toks[i], X07, <<SP, EQ, SP>>)]

\* the loop of Function._make_snippet over enumerate(mand_args)
RECURSIVE SnippetLoop(_, _, _)
SnippetLoop(snippet, mand_args, numarg) ==
    IF numarg >= Len(mand_args) THEN snippet
    ELSE LET arg == mand_args[numarg + 1]
         IN IF IsSubstring(arg, Dots) /\ numarg > 0
            THEN SnippetLoop(snippet, mand_args, numarg + 1)
            ELSE SnippetLoop(snippet \o <<"$", "{">> \o Str(numarg + 1)
                                     \o <<":">> \o arg \o <<"}", ",", SP>>,
                             mand_args, numarg + 1)

\* _make_snippet leaving the parenthesis of a NO_ARGS function open
_make_snippet_open(word, args) ==
    IF args = <<>> THEN IndexError
    ELSE IF args[1] = NO_ARGS THEN word \o <<"(">>
    ELSE Let(SelectSeq(args, LAMBDA a : ~Contains(a, EQ)), LAMBDA mand_args :
            LET looped == SnippetLoop(word \o <<"(">>, mand_args, 0)
            IN (IF Len(mand_args) >= 1 THEN Slice(looped, -2)
                                       ELSE looped \o <<"$", "1">>) \o <<")">>)

\* _make_snippet keeping the ", " after the last placeholder
_make_snippet_trailing_comma(word, args) ==
    IF args = <<>> THEN IndexError
    ELSE IF args[1] = NO_ARGS THEN word \o <<"(", ")">>
    ELSE Let(SelectSeq(args, LAMBDA a : ~Contains(a, EQ)), LAMBDA mand_args :
            LET looped == SnippetLoop(word \o <<"(">>, mand_args, 0)
            IN (IF Len(mand_args) >= 1 THEN looped
                                       ELSE looped \o <<"$", "1">>) \o <<")">>)

\* Function._make_snippet: the value of self.snippet, or the exception
_make_snippet(word, args) ==
    IF args = <<>> THEN IndexError
    ELSE IF args[1] = NO_ARGS THEN word \o <<"(", ")">>
    ELSE Let(SelectSeq(args, LAMBDA a : ~Contains(a, EQ)), LAMBDA mand_args :
            LET looped == SnippetLoop(word \o <<"(">>, mand_args, 0)
            IN (IF Len(mand_args) >= 1 THEN Slice(looped, -2)
                                       ELSE looped \o <<"$", "1">>) \o <<")">>)

\* Function(word=, info=): the constructed object, or the exception
Function(word, info) ==
    Let(_get_args(info), LAMBDA args :
        Let(_make_snippet(word, args), LAMBDA snippet :
            IF args = <<>> THEN snippet
            ELSE [args |-> args, snippet |-> snippet]))

(***************************************************************************)
(* class Match                                                             *)
(***************************************************************************)
\* Match.MIN_LEN
MIN_LEN == [col1 |-> 7, col2 |-> 7]

\* 'col' + str(col_nb)
Column(col_nb) == IF col_nb = 1 THEN "col1" ELSE "col2"

\* _col leaving the value as long as it is
_col_uncut(value, col_nb, brackets) ==
    LET column == Column(col_nb)
    IN IF len[column] < MIN_LEN[column] THEN <<>>
       ELSE IF brackets THEN <<"{">> \o value \o <<"}">>
            ELSE value

\* Match._col
_col(value, col_nb, brackets) ==
    LET column == Column(col_nb)
    IN IF len[column] < MIN_LEN[column] THEN <<>>
       ELSE IF brackets
            THEN <<"{">> \o Slice(value, len[column] - 3) \o <<"}">>
            ELSE Slice(value, len[column] - 1)

\* Match._menu
_menu(col1, col2, col3) ==
    IF col1 # <<>> /\ col2 = <<>> /\ col3 = <<>> THEN col1
    ELSE LET m1 == IF col1 # <<>> /\ len["col1"] >= MIN_LEN["col1"]
                   THEN Format(col1, len["col1"] - 1) ELSE <<>>
             m2 == IF col2 # <<>> /\ len["col2"] >= MIN_LEN["col2"]
                   THEN Format(col2, len["col2"] - 1) ELSE <<>>
         IN Strip(m1 \o m2 \o col3)

\* Match._process_df
_process_df(match) ==
    match @@ [snippet |-> match.word \o <<SP, "%", ">", "%", "$", "1">>]

\* _process_package cutting the info to the width of column 2
_process_package_cut(match) ==
    [(match @@ [snippet |-> match.word \o <<":", ":", "$", "1">>])
        EXCEPT !.menu = _menu(_col(S_package, 1, FALSE),
                              _col(match.info, 2, FALSE), <<>>)]

\* Match._process_package
_process_package(match) ==
    [(match @@ [snippet |-> match.word \o <<":", ":", "$", "1">>])
        EXCEPT !.menu = _menu(_col(S_package, 1, FALSE), match.info, <<>>)]

\* _process_argument taking the text between the first two "=" as default
_process_argument_first_default(match) ==
    Let(Split(match.word, EQ), LAMBDA parts :
      Let([i \in 1..Len(parts) |-> Strip(parts[i])], LAMBDA word_parts :
        Let(IF Len(word_parts) >= 2 THEN word_parts[2] ELSE <<>>, LAMBDA rhs :
          LET lhs == word_parts[1]
              col2 == IF rhs # <<>> THEN <<EQ, SP>> \o rhs ELSE <<>>
              quotes == QuotesSearch(rhs)
              snippet ==
                  IF rhs # <<>>
                  THEN IF quotes # <<>>
                       THEN lhs \o <<SP, EQ, SP, DQ, "$", "{", "1", ":">>
                                \o quotes[1] \o <<"}", DQ>>
                       ELSE lhs \o <<SP, EQ, SP, "$", "{", "1", ":">>
                                \o rhs \o <<"}">>
                  ELSE lhs \o <<SP, EQ, SP, "$", "1">>
          IN [([match EXCEPT !.word = lhs] @@ [snippet |-> snippet])
                EXCEPT !.menu = _menu(_col(S_argument, 1, FALSE),
                                      col2, <<>>)])))

\* Match._process_argument
_process_argument(match) ==
    Let(Split(match.word, EQ), LAMBDA parts :
      Let([i \in 1..Len(parts) |-> Strip(parts[i])], LAMBDA word_parts :
        Let(IF Len(word_parts) = 2 THEN word_parts[2] ELSE <<>>, LAMBDA rhs :
          LET lhs == word_parts[1]
              col2 == IF rhs # <<>> THEN <<EQ, SP>> \o rhs ELSE <<>>
              quotes == QuotesSearch(rhs)
              snippet ==
                  IF rhs # <<>>
                  THEN IF quotes # <<>>
                       THEN lhs \o <<SP, EQ, SP, DQ, "$", "{", "1", ":">>
                                \o quotes[1] \o <<"}", DQ>>
                       ELSE lhs \o <<SP, EQ, SP, "$", "{", "1", ":">>
                                \o rhs \o <<"}">>
                  ELSE lhs \o <<SP, EQ, SP, "$", "1">>
          IN [([match EXCEPT !.word = lhs] @@ [snippet |-> snippet])
                EXCEPT !.menu = _menu(_col(S_argument, 1, FALSE),
                                      col2, <<>>)])))

\* _process_variable cutting the kind to the width of column 2
_process_variable_cut(match) ==
    [match EXCEPT !.menu = _menu(_col(S_variable, 1, FALSE),
                                 _col(match.struct, 2, FALSE), <<>>)]

\* Match._process_variable
_process_variable(match) ==
    [match EXCEPT !.menu = _menu(_col(S_variable, 1, FALSE), match.struct, <<>>)]

RECURSIVE build(_, _, _, _)

\* _process_function giving "..." an argument match
_process_function_dots(match) ==
    Let(Function(match.word, match.info), LAMBDA function :
        IF Raised(function) THEN function
        ELSE Let(SelectSeq(function.args, LAMBDA arg : arg # NO_ARGS),
                 LAMBDA kept :
                 match @@ [args |-> [i \in 1..Len(kept) |->
                                       build(kept[i], S_argument, <<>>, <<>>)],
                           snippet |-> function.snippet]))

\* Match._process_function
_process_function(match) ==
    Let(Function(match.word, match.info), LAMBDA function :
        IF Raised(function) THEN function
        ELSE Let(SelectSeq(function.args,
                           LAMBDA arg : arg \notin {NO_ARGS, Dots}),
                 LAMBDA kept :
                 Let([i \in 1..Len(kept) |->
                         build(kept[i], S_argument, <<>>, <<>>)],
                     LAMBDA args :
                     LET failed == {i \in 1..Len(args) : Raised(args[i])}
                     IN IF failed # {}
                        THEN args[CHOOSE i \in failed :
                                     \A j \in failed : i <= j]
                        ELSE match @@ [args |-> args,
                                       snippet |-> function.snippet])))

\* Match.build: the returned dict, or the exception
build(word, struct, pkg, info) ==
    LET obj_title == IF info # <<>> THEN TitleSearch(info) ELSE <<>>
        title == IF obj_title # <<>> THEN Strip(obj_title[1]) ELSE <<>>
    IN Let([word |-> word, struct |-> struct, pkg |-> pkg, info |-> info,
            menu |-> _menu(_col(pkg, 1, TRUE), _col(struct, 2, FALSE), title)],
           LAMBDA match :
           Let(IF struct = S_function THEN _process_function(match)
               ELSE IF struct \in {S_data_frame, S_tbl_df}
                    THEN _process_df(match)
               ELSE IF struct = S_package THEN _process_package(match)
               ELSE IF struct = S_argument THEN _process_argument(match)
               ELSE match,
               LAMBDA processed :
               IF Raised(processed) THEN processed
               ELSE Let(IF Contains(word, DOLLAR)
                        THEN _process_variable(processed)
                        ELSE processed,
                        LAMBDA final :
                        [k \in (DOMAIN final) \ {"info"} |-> final[k]])))

(***************************************************************************)
(* class Matches                                                           *)
(***************************************************************************)
\* the loop of from_omnils and from_pkg_desc: the list of matches, or the
\* exception of the first build that raises
Collect(built) ==
    Let(built, LAMBDA matches :
        LET failed == {i \in 1..Len(matches) : Raised(matches[i])}
        IN IF failed # {}
           THEN matches[CHOOSE i \in failed : \A j \in failed : i <= j]
           ELSE [matches |-> matches])

\* Matches.from_omnils
from_omnils(lines) ==
    LET kept == SelectSeq(lines, LAMBDA line : Len(Split(line, X06)) >= 5)
    IN Collect([i \in 1..Len(kept) |->
                   Let(Split(kept[i], X06), LAMBDA parts :
                       build(parts[1], parts[2], parts[4], parts[5]))])

\* Matches.from_pkg_desc
from_pkg_desc(lines) ==
    LET kept == SelectSeq(lines, LAMBDA line : Len(Split(line, TAB)) >= 2)
    IN Collect([i \in 1..Len(kept) |->
                   Let(Split(kept[i], TAB), LAMBDA parts :
                       build(parts[1], S_package, <<>>, parts[2]))])

(***************************************************************************)
(* Inputs                                                                  *)
(***************************************************************************)
\* longest argument list of an info, in tokens
MaxArgs == 2

\* longest list of lines handed to from_omnils and from_pkg_desc
MaxLines == 2

\* column widths: 0 (the column is hidden), MIN_LEN, and the default
Widths == {0, 7, 11}

Settings == [col1_len : Widths, col2_len : Widths]

S_numeric == <<"n", "u", "m", "e", "r", "i", "c">>

Kinds == {S_function, S_data_frame, S_tbl_df, S_package, S_argument,
          S_numeric, <<>>}

Words == {<<"f">>, <<"(">>, <<"d", "$", "x">>,
          <<"n", SP, EQ, SP, DQ, "b", DQ>>,
          <<"n", EQ, "a", EQ, "b">>,
          <<"n", EQ, "{">>,
          <<"n", EQ, SP>>}

Pkgs == {<<>>, <<"s", "t", "a", "t", "s">>}

\* argument tokens as they stand in an omnils line
Tokens == {<<"a">>, Dots, <<>>, NO_ARGS,
           <<"b", X07, DQ, "s", DQ>>,
           <<"e", X07, "x", EQ, "y">>}

\* what follows the argument list in the info of a function
Docs == {<<>>, <<X08, SP, "T", X05, "D">>}

\* the info of anything but a function
Descriptions == {<<>>, <<"D", "a", "t", "a">>, <<SP, "D", NBSP>>,
                 <<X08, SP, "T", X05, "D">>}

\* sep.join(parts)
RECURSIVE Join(_, _)
Join(parts, sep) ==
    IF parts = <<>> THEN <<>>
    ELSE IF Len(parts) = 1 THEN parts[1]
    ELSE parts[1] \o <<sep>> \o Join(Tail(parts), sep)

\* the sequences over S of a length from lo to hi
SeqsOf(S, lo, hi) == UNION {[1..n -> S] : n \in lo..hi}

Infos == {Join(ts, TAB) \o d : ts \in SeqsOf(Tokens, 1, MaxArgs), d \in Docs}

\* only a function has its info read as an argument list
InfosOf(struct) == IF struct = S_function THEN Infos ELSE Descriptions

OmnilsLines ==
    {<<>>,
     Join(<<<<"x">>, S_numeric, <<>>, <<"b">>>>, X06),
     Join(<<<<"f">>, S_function, <<>>, <<"s", "t", "a", "t", "s">>,
            <<"a", TAB, "b", X07, "1">>>>, X06),
     Join(<<<<"h">>, S_function, <<>>, <<"b">>, <<>>>>, X06),
     Join(<<<<"d">>, S_data_frame, <<>>, <<"b">>, <<X08, "T", X05>>>>, X06),
     Join(<<<<"d", "$", "x">>, S_numeric, <<>>, <<"d">>, <<>>, <<"z">>>>, X06),
     Join(<<<<"g">>, S_function, <<>>, <<"b">>, NO_ARGS>>, X06)}

PkgLines ==
    {<<"n", "o">>,
     <<"d", "p", TAB, "D", "a", "t", "a", SP, "m", "a", "n", "i", "p">>,
     <<"a", TAB, "b", TAB, "c">>,
     <<"p", "$", "q", TAB, "x">>,
     <<"e", TAB>>}

(***************************************************************************)
(* The host and the Matches object                                         *)
(***************************************************************************)
None == [none |-> TRUE]

NoCall == [op |-> "none"]

\* Matches.__init__ / Match.__init__
Init ==
    /\ len = [col1 |-> 11, col2 |-> 11]
    /\ settings = <<>>
    /\ pc = "idle"
    /\ call = NoCall
    /\ ret = None

\* setup giving both columns the width of column 1
Setup_col1_twice(s) ==
    /\ pc = "idle"
    /\ len' = [len EXCEPT !["col1"] = s.col1_len, !["col2"] = s.col1_len]
    /\ settings' = <<s>>
    /\ call' = [op |-> "setup", settings |-> s]
    /\ ret' = None
    /\ pc' = "returned"

\* Matches.setup -> Match.setup
Setup(s) ==
    /\ pc = "idle"
    /\ len' = [len EXCEPT !["col1"] = s.col1_len, !["col2"] = s.col2_len]
    /\ settings' = <<s>>
    /\ call' = [op |-> "setup", settings |-> s]
    /\ ret' = None
    /\ pc' = "returned"

\* Match.build
Build(word, struct, pkg, info) ==
    /\ pc = "idle"
    /\ call' = [op |-> "build", word |-> word, struct |-> struct,
                pkg |-> pkg, info |-> info]
    /\ ret' = build(word, struct, pkg, info)
    /\ pc' = "returned"
    /\ UNCHANGED <<len, settings>>

\* Matches.from_omnils
FromOmnils(lines) ==
    /\ pc = "idle"
    /\ call' = [op |-> "from_omnils", lines |-> lines]
    /\ ret' = from_omnils(lines)
    /\ pc' = "returned"
    /\ UNCHANGED <<len, settings>>

\* Matches.from_pkg_desc
FromPkgDesc(lines) ==
    /\ pc = "idle"
    /\ call' = [op |-> "from_pkg_desc", lines |-> lines]
    /\ ret' = from_pkg_desc(lines)
    /\ pc' = "returned"
    /\ UNCHANGED <<len, settings>>

\* the host takes the returned value and is ready for its next call
Resume ==
    /\ pc = "returned"
    /\ pc' = "idle"
    /\ call' = NoCall
    /\ ret' = None
    /\ UNCHANGED <<len, settings>>

\* the caller makes its calls one at a time: a call when it is idle, then
\* the return
Next ==
    \/ pc = "idle" /\ \E s \in Settings : Setup(s)
    \/ pc = "idle" /\ \E word \in Words, struct \in Kinds, pkg \in Pkgs :
          \E info \in InfosOf(struct) : Build(word, struct, pkg, info)
    \/ pc = "idle" /\ \E lines \in SeqsOf(OmnilsLines, 0, MaxLines) :
          FromOmnils(lines)
    \/ pc = "idle" /\ \E lines \in SeqsOf(PkgLines, 0, MaxLines) :
          FromPkgDesc(lines)
    \/ Resume

Spec == Init /\ [][Next]_vars

(***************************************************************************)
(* Vocabulary of the properties                                            *)
(***************************************************************************)
Returned(op) == pc = "returned" /\ call.op = op

\* a build call has returned a match
Built == Returned("build") /\ ~Raised(ret)

\* the matches the returned value carries at its top level
TopMatches ==
    IF pc # "returned" \/ Raised(ret) THEN <<>>
    ELSE IF call.op = "build" THEN <<ret>>
    ELSE IF call.op \in {"from_omnils", "from_pkg_desc"} THEN ret.matches
    ELSE <<>>

\* the argument matches nested in a match
SubMatches(m) == IF "args" \in DOMAIN m THEN m.args ELSE <<>>

\* P holds of every returned match, nested ones included
EveryMatch(P(_)) ==
    \A i \in 1..Len(TopMatches) :
        /\ P(TopMatches[i])
        /\ \A j \in 1..Len(SubMatches(TopMatches[i])) :
              P(SubMatches(TopMatches[i])[j])

\* s padded with spaces on the right to n characters
Pad(s, n) == s \o [i \in 1..(n - Len(s)) |-> SP]

\* the characters a snippet uses for its own syntax
Brackets == {"{", "}", "(", ")"}

NoBrackets(s) == \A i \in 1..Len(s) : s[i] \notin Brackets

\* the depth of open/close nesting after each prefix of s
RECURSIVE Depth(_, _, _)
Depth(s, open, close) ==
    IF s = <<>> THEN 0
    ELSE Depth(SubSeq(s, 1, Len(s) - 1), open, close)
         + (IF s[Len(s)] = open THEN 1 ELSE IF s[Len(s)] = close THEN -1 ELSE 0)

Balanced(s, open, close) ==
    /\ Depth(s, open, close) = 0
    /\ \A n \in 1..Len(s) : Depth(SubSeq(s, 1, n), open, close) >= 0

\* the lines of a from_omnils call that hold 5 fields or more
Records == SelectSeq(call.lines, LAMBDA line : Len(Split(line, X06)) >= 5)

\* the argument list of the function a build call names
ArgumentList == _get_args(call.info)

\* its tokens that carry no default value
Mandatory == SelectSeq(ArgumentList, LAMBDA a : ~Contains(a, EQ))

\* "${i:token}"
Placeholder(i, token) == <<"$", "{">> \o Str(i) \o <<":">> \o token \o <<"}">>

\* parts joined by ", "
RECURSIVE JoinComma(_)
JoinComma(parts) ==
    IF parts = <<>> THEN <<>>
    ELSE IF Len(parts) = 1 THEN parts[1]
    ELSE parts[1] \o <<",", SP>> \o JoinComma(Tail(parts))

\* the snippet of a function whose mandatory tokens at the positions in
\* shown get a placeholder
SnippetShowing(shown) ==
    LET idx == SelectSeq([i \in 1..Len(Mandatory) |-> i],
                         LAMBDA i : i \in shown)
    IN IF Mandatory = <<>> THEN call.word \o <<"(", "$", "1", ")">>
       ELSE call.word \o <<"(">>
            \o JoinComma([k \in 1..Len(idx) |->
                             Placeholder(idx[k], Mandatory[idx[k]])])
            \o <<")">>

\* the positions of s that hold "..." after an earlier "..."
LaterDots(s) == {i \in 1..Len(s) : s[i] = Dots /\ \E j \in 1..(i - 1) : s[j] = Dots}

\* a function build whose argument list does not start with NO_ARGS
FunctionWithArgs ==
    /\ Built
    /\ call.struct = S_function
    /\ ArgumentList[1] # NO_ARGS

(***************************************************************************)
(* C1                                                                      *)
(***************************************************************************)
\* C1: from_omnils returns one match for each line of 5 fields or more, in
\* the order of the lines, taking word, kind and package from fields 0, 1
\* and 3, and none for a shorter line; no lines give no matches.
C1_OneMatchPerRecord ==
    Returned("from_omnils") =>
        /\ ~Raised(ret)
        /\ Len(ret.matches) = Len(Records)
        /\ \A i \in 1..Len(Records) :
              LET parts == Split(Records[i], X06)
              IN /\ ret.matches[i].struct = parts[2]
                 /\ ret.matches[i].pkg = parts[4]
                 /\ parts[2] # S_argument => ret.matches[i].word = parts[1]

(***************************************************************************)
(* C2                                                                      *)
(***************************************************************************)
\* C2: build returns a match and raises nothing for every word, kind,
\* package and info; a function with an empty info gets the snippet
\* word + "()" or word + "($1)".
C2_BuildNeverRaises ==
    Returned("build") =>
        /\ ~Raised(ret)
        /\ (call.struct = S_function /\ call.info = <<>>) =>
              ret.snippet \in {call.word \o <<"(", ")">>,
                               call.word \o <<"(", "$", "1", ")">>}

(***************************************************************************)
(* C3                                                                      *)
(***************************************************************************)
\* C3 as claimed: the snippet of a function whose argument list does not
\* start with NO_ARGS has one placeholder "${i:token}" for every mandatory
\* token, i being its position among the mandatory tokens, but for a "..."
\* that follows an earlier "..."; with no mandatory token it is word + "($1)".
C3_DotsSkippedAfterFirstOccurrence ==
    FunctionWithArgs =>
        ret.snippet = SnippetShowing((1..Len(Mandatory)) \ LaterDots(Mandatory))

\* C3 as amended: the snippet of a function whose argument list does not
\* start with NO_ARGS has one placeholder "${i:token}" for every mandatory
\* token, i being its position among the mandatory tokens, but for every
\* mandatory token after the first one that is "..." or a piece of it
\* ("", ".", ".."); with no mandatory token it is word + "($1)".
C3_DotsSkippedAfterFirstMandatory ==
    FunctionWithArgs =>
        ret.snippet = SnippetShowing({i \in 1..Len(Mandatory) :
                                        i = 1 \/ ~IsSubstring(Mandatory[i], Dots)})

\* a function whose only "..." follows a mandatory argument: the "..." gets
\* no placeholder
C3_Witness ==
    /\ FunctionWithArgs
    /\ Mandatory = <<<<"a">>, Dots>>
    /\ ret.snippet = call.word \o <<"(", "$", "{", "1", ":", "a", "}", ")">>

(***************************************************************************)
(* C4                                                                      *)
(***************************************************************************)
\* the argument matches of the returned function are the builds, as kind
\* argument, of the tokens of its argument list at the positions in kept
ArgsAreBuildsOf(kept) ==
    LET idx == SelectSeq([i \in 1..Len(ArgumentList) |-> i],
                         LAMBDA i : i \in kept)
    IN /\ Len(ret.args) = Len(idx)
       /\ \A k \in 1..Len(idx) :
             /\ ret.args[k] = build(ArgumentList[idx[k]], S_argument, <<>>, <<>>)
             /\ ret.args[k].struct = S_argument

\* C4 as claimed: a function carries one argument match for each token of
\* its argument list that is neither NO_ARGS nor a "..." after an earlier
\* "...", in the order of the list; the first "..." gets one.
C4_FirstDotsGetsArgument ==
    (Built /\ call.struct = S_function) =>
        ArgsAreBuildsOf({i \in 1..Len(ArgumentList) :
                           ArgumentList[i] # NO_ARGS} \ LaterDots(ArgumentList))

\* C4 as amended: a function carries one argument match for each token of
\* its argument list that is neither NO_ARGS nor "...", in the order of the
\* list; no "..." gets one, the first included.
C4_NoDotsGetsArgument ==
    (Built /\ call.struct = S_function) =>
        ArgsAreBuildsOf({i \in 1..Len(ArgumentList) :
                           ArgumentList[i] \notin {NO_ARGS, Dots}})

\* a function of the arguments "..." and "a": one argument match, for "a"
C4_Witness ==
    /\ Built
    /\ call.struct = S_function
    /\ ArgumentList = <<Dots, <<"a">>>>
    /\ Len(ret.args) = 1
    /\ ret.args[1].word = <<"a">>

(***************************************************************************)
(* C5                                                                      *)
(***************************************************************************)
\* the builds of kind argument behind the returned value, each as
\* <<word handed to build, match returned>>
ArgumentBuilds ==
    IF ~Built THEN <<>>
    ELSE IF call.struct = S_argument THEN << <<call.word, ret>> >>
    ELSE IF call.struct = S_function
         THEN LET kept == SelectSeq(ArgumentList,
                                    LAMBDA a : a \notin {NO_ARGS, Dots})
              IN [k \in 1..Len(kept) |-> <<kept[k], ret.args[k]>>]
    ELSE <<>>

\* the number of "=" in a word
Equals(word) == Len(Split(word, EQ)) - 1

\* the trimmed text left of the first "="
NameOf(word) == Strip(Split(word, EQ)[1])

\* the trimmed text right of the first "="
DefaultOf(word) == Strip(Join(Tail(Split(word, EQ)), EQ))

\* a double-quoted literal
IsQuoted(text) ==
    /\ Len(text) >= 2
    /\ text[1] = DQ
    /\ text[Len(text)] = DQ
    /\ \A k \in 2..(Len(text) - 1) : text[k] # NL

\* the snippet of the argument name with the default text given
ArgumentSnippet(name, default) ==
    IF default = <<>> THEN name \o <<SP, EQ, SP, "$", "1">>
    ELSE IF IsQuoted(default)
         THEN name \o <<SP, EQ, SP, DQ, "$", "{", "1", ":">>
                   \o SubSeq(default, 2, Len(default) - 1) \o <<"}", DQ>>
         ELSE name \o <<SP, EQ, SP, "$", "{", "1", ":">> \o default \o <<"}">>

\* C5 as claimed: an argument's word is the trimmed text left of the "=";
\* its snippet is made of the trimmed text right of the first "=", as
\* name = "${1:inner}" for a double-quoted default, name = ${1:default} for
\* another, and name = $1 only when there is no default text; also when the
\* default text holds a "=".
C5_DefaultMayHoldEquals ==
    \A k \in 1..Len(ArgumentBuilds) :
        LET word == ArgumentBuilds[k][1]
            match == ArgumentBuilds[k][2]
        IN /\ match.word = NameOf(word)
           /\ match.snippet = ArgumentSnippet(NameOf(word), DefaultOf(word))

\* C5 as amended: an argument's word is the trimmed text left of the first
\* "="; when the word holds exactly one "=", followed by text that is not
\* blank, its snippet is name = "${1:inner}" for a double-quoted default and
\* name = ${1:default} for another; a word with no "=", with a blank default
\* or with more than one "=" gets name = $1.
C5_DefaultOfSingleEquals ==
    \A k \in 1..Len(ArgumentBuilds) :
        LET word == ArgumentBuilds[k][1]
            match == ArgumentBuilds[k][2]
        IN /\ match.word = NameOf(word)
           /\ match.snippet =
                 ArgumentSnippet(NameOf(word),
                                 IF Equals(word) = 1 THEN DefaultOf(word)
                                                     ELSE <<>>)

\* an argument with a double-quoted default
C5_Witness ==
    /\ Built
    /\ call.struct = S_argument
    /\ call.word = <<"n", SP, EQ, SP, DQ, "b", DQ>>
    /\ ret.word = <<"n">>
    /\ ret.snippet = <<"n", SP, EQ, SP, DQ, "$", "{", "1", ":", "b", "}", DQ>>

(***************************************************************************)
(* C6                                                                      *)
(***************************************************************************)
\* the builds of kind package behind the returned value, each as
\* <<word, info, match returned>>
PackageBuilds ==
    IF pc # "returned" \/ Raised(ret) THEN <<>>
    ELSE IF call.op = "build" /\ call.struct = S_package
         THEN << <<call.word, call.info, ret>> >>
    ELSE IF call.op = "from_pkg_desc"
         THEN LET kept == SelectSeq(call.lines,
                                    LAMBDA line : Len(Split(line, TAB)) >= 2)
              IN [k \in 1..Len(kept) |->
                    <<Split(kept[k], TAB)[1], Split(kept[k], TAB)[2],
                      ret.matches[k]>>]
    ELSE <<>>

\* column 1 of a menu holding the label given, with the space after it
LabelColumn(label) ==
    IF len["col1"] >= 7
    THEN Pad(Slice(label, len["col1"] - 1), len["col1"] - 1) \o <<SP>>
    ELSE <<>>

\* C6 as claimed: the menu of a package with a non-empty info is the label
\* "package" as column 1 followed by the info as column 2, and holds the
\* info in full whatever col2 is.
C6_InfoInFullForEveryWidth ==
    \A k \in 1..Len(PackageBuilds) :
        LET info == PackageBuilds[k][2]
            match == PackageBuilds[k][3]
        IN info # <<>> =>
              /\ match.menu = Strip(LabelColumn(S_package) \o info)
              /\ IsSubstring(Strip(info), match.menu)

\* C6 as amended: the menu of a package with a non-empty info and no "$" in
\* its word is the label "package" as column 1 followed by the info as
\* column 2, trimmed of white space at its two ends; when col2 is 7 or more
\* the info is in it whatever its length, and when col2 is less than 7 the
\* info is left out.
C6_InfoInFullWhenColumnShown ==
    \A k \in 1..Len(PackageBuilds) :
        LET word == PackageBuilds[k][1]
            info == PackageBuilds[k][2]
            match == PackageBuilds[k][3]
        IN (info # <<>> /\ ~Contains(word, DOLLAR)) =>
              IF len["col2"] >= 7
              THEN /\ match.menu = Strip(LabelColumn(S_package) \o info)
                   /\ IsSubstring(Strip(info), match.menu)
              ELSE match.menu = Strip(LabelColumn(S_package))

\* a package whose info is longer than the col2 - 1 characters of column 2
C6_Witness ==
    /\ Returned("from_pkg_desc")
    /\ len = [col1 |-> 7, col2 |-> 7]
    /\ Len(PackageBuilds) = 1
    /\ Len(PackageBuilds[1][2]) > len["col2"] - 1
    /\ PackageBuilds[1][3].menu =
          <<"p", "a", "c", "k", "a", "g", SP>> \o PackageBuilds[1][2]

(***************************************************************************)
(* C7                                                                      *)
(***************************************************************************)
\* the title build reads in an info
TitleOf(info) ==
    IF info # <<>> /\ TitleSearch(info) # <<>>
    THEN Strip(TitleSearch(info)[1]) ELSE <<>>

\* the returned menu is the one of package, kind and title
BaseMenu ==
    /\ call.struct \notin {S_package, S_argument}
    /\ ~Contains(call.word, DOLLAR)

\* the characters a column of the width given may take
Budget(width) == IF width >= 7 THEN width - 1 ELSE 0

\* C7 as claimed: for every kind and every width, a menu without a title is
\* no longer than (col1 - 1) + 1 + (col2 - 1) characters, column 1 taking
\* col1 - 1 characters at most and column 2 col2 - 1 at most.
C7_EveryMenuWithinWidths ==
    (Built /\ ~(BaseMenu /\ TitleOf(call.info) # <<>>)) =>
        Len(ret.menu) <= (len["col1"] - 1) + 1 + (len["col2"] - 1)

\* C7 as amended: for a kind other than package and argument and a word
\* without "$", a menu without a title is no longer than b1 + 1 + b2
\* characters, where b1 is col1 - 1 when col1 is 7 or more and 0 when column
\* 1 is hidden, and b2 the same of col2.
C7_BaseMenuWithinWidths ==
    (Built /\ BaseMenu /\ TitleOf(call.info) = <<>>) =>
        Len(ret.menu) <= Budget(len["col1"]) + 1 + Budget(len["col2"])

\* a package and a kind both longer than their columns, cut to fit
C7_Witness ==
    /\ Built
    /\ BaseMenu
    /\ TitleOf(call.info) = <<>>
    /\ len = [col1 |-> 7, col2 |-> 7]
    /\ Len(call.pkg) > 4
    /\ Len(call.struct) > 6
    /\ Len(ret.menu) = 13

(***************************************************************************)
(* C8                                                                      *)
(***************************************************************************)
\* C8: when the word holds "$", whatever the kind, the menu is the one of
\* the label "variable" as column 1 and the kind as column 2, and the
\* snippet is the one of the kind: the function snippet for a function,
\* none for a kind without one.
C8_VariableMenuOverrides ==
    (Built /\ Contains(call.word, DOLLAR)) =>
        /\ ret.menu = _menu(_col(S_variable, 1, FALSE), call.struct, <<>>)
        /\ ret.menu = IF call.struct # <<>> /\ len["col2"] >= 7
                      THEN Strip(LabelColumn(S_variable) \o call.struct)
                      ELSE Strip(LabelColumn(S_variable))
        /\ CASE call.struct = S_function ->
                  ret.snippet = _make_snippet(call.word, ArgumentList)
             [] call.struct \in {S_data_frame, S_tbl_df} ->
                  ret.snippet = call.word \o <<SP, "%", ">", "%", "$", "1">>
             [] call.struct = S_package ->
                  ret.snippet = call.word \o <<":", ":", "$", "1">>
             [] call.struct = S_argument ->
                  ret.snippet =
                     ArgumentSnippet(NameOf(call.word),
                                     IF Equals(call.word) = 1
                                     THEN DefaultOf(call.word) ELSE <<>>)
             [] OTHER -> "snippet" \notin DOMAIN ret

\* a function named with a "$": the menu of a variable, the snippet of a
\* function
C8_Witness ==
    /\ Built
    /\ call.word = <<"d", "$", "x">>
    /\ call.struct = S_function
    /\ len = [col1 |-> 11, col2 |-> 11]
    /\ ret.menu = <<"v", "a", "r", "i", "a", "b", "l", "e", SP, SP, SP>>
                     \o S_function
    /\ SubSeq(ret.snippet, 1, 4) = <<"d", "$", "x", "(">>

(***************************************************************************)
(* C9                                                                      *)
(***************************************************************************)
\* the kinds build makes a snippet for
SnippetKinds == {S_function, S_data_frame, S_tbl_df, S_package, S_argument}

\* the text handed to the call holds no brace and no parenthesis
PlainInput ==
    IF call.op = "build" THEN NoBrackets(call.word) /\ NoBrackets(call.info)
    ELSE \A i \in 1..Len(call.lines) : NoBrackets(call.lines[i])

WellFormed(m) ==
    /\ m.snippet # <<>>
    /\ Balanced(m.snippet, "{", "}")
    /\ m.struct \in {S_function, S_argument} => Balanced(m.snippet, "(", ")")

\* C9 as claimed: every match returned, nested argument matches and matches
\* of an unknown or empty kind included, has a snippet that is not empty,
\* with balanced braces and, for a function or an argument, balanced
\* parentheses.
C9_EverySnippetWellFormed ==
    EveryMatch(LAMBDA m : "snippet" \in DOMAIN m /\ WellFormed(m))

\* C9 as amended: every match returned of kind function, data.frame, tbl_df,
\* package or argument, nested argument matches included, has a snippet
\* that is not empty; when the word and the info, or the lines, hold no
\* brace and no parenthesis, its braces are balanced and so are, for a
\* function or an argument, its parentheses; a match of another kind has
\* no snippet.
C9_KnownKindSnippetWellFormed ==
    EveryMatch(LAMBDA m :
        IF m.struct \in SnippetKinds
        THEN /\ "snippet" \in DOMAIN m
             /\ m.snippet # <<>>
             /\ PlainInput => WellFormed(m)
        ELSE "snippet" \notin DOMAIN m)

\* a function with a mandatory argument and one with a quoted default, and
\* the argument matches nested in it
C9_Witness ==
    /\ Built
    /\ PlainInput
    /\ call.struct = S_function
    /\ Len(ret.args) = 2
    /\ ret.snippet = call.word \o <<"(", "$", "{", "1", ":", "a", "}", ")">>
    /\ ret.args[2].snippet =
          <<"b", SP, EQ, SP, DQ, "$", "{", "1", ":", "s", "}", DQ>>

(***************************************************************************)
(* C10                                                                     *)
(***************************************************************************)
\* C10: the widths are those of the latest setup call, 11 and 11 before the
\* first one; no build changes them.
C10_WidthsOfLatestSetup ==
    IF settings = <<>>
    THEN len = [col1 |-> 11, col2 |-> 11]
    ELSE len = [col1 |-> settings[1].col1_len, col2 |-> settings[1].col2_len]

\* a function with nested argument matches built after a setup call that
\* gave the two columns different widths
C10_Witness ==
    /\ Built
    /\ call.struct = S_function
    /\ Len(ret.args) >= 1
    /\ settings # <<>>
    /\ settings[1].col1_len # settings[1].col2_len
    /\ len = [col1 |-> settings[1].col1_len, col2 |-> settings[1].col2_len]

====
